---------------------------- MODULE Spec2Model ----------------------------
(***************************************************************************)
(* State-machine model of the ghost-protocol Solana program                *)
(* (solana-program/src/lib.rs): the access-control registry, the ghost     *)
(* transfer ledger and the liquidity pool engine.                          *)
(*                                                                         *)
(* Every instruction handler is one action.  A handler that returns an     *)
(* error leaves every account as it was (the runtime discards the          *)
(* writes of a failed instruction); the action then only records the       *)
(* error code in `last`.  Every account holds one kind of record: a        *)
(* handler is passed a config, ghost, pool, position or intent account     *)
(* where it expects one (the records carry no type tag in the program).    *)
(***************************************************************************)
EXTENDS Integers, Sequences, FiniteSets, TLC

(***************************************************************************)
(* Bounds of the model.                                                    *)
(***************************************************************************)
\* Clock::get()?.unix_timestamp returns a value of 1..MaxClock.
MaxClock == 1
\* The u64 counters of the pool engine are WordBits wide (64 in the program).
WordBits == 2
\* The lamports in circulation (in the program: far fewer than 2^64).
Supply == 2
\* The largest max_validators passed to Initialize (a u8 in the program).
MaxValidators == 2

(***************************************************************************)
(* Values.                                                                 *)
(***************************************************************************)
\* 32 zero bytes: Pubkey::default(), [0u8; 32].
Zero32 == "zero32"
\* The account that is not owned by this program (owner != program_id).
Foreign == "foreign"
\* The account whose data is shorter than the record serialized into it.
Undersized == "undersized"
\* Ghost correlation ids (other than the all-zero id).
GhostIds == {"idA", "idB"}
\* Opaque payloads.
Tokens == {"tokA"}
Proofs == {"proof1"}
Chains == {1}
\* A 64-byte destination address is a pair of 32-byte halves <<low, high>>.
ZeroAddr == <<Zero32, Zero32>>
DestAddrs == {<<"addrLo", "addrHi">>}
Timestamps == 1..MaxClock
\* Amounts carried by CreateGhost / MirrorGhost (stored, never computed with).
GhostAmounts == {5}

\* enum GhostState
GhostStates == {"None", "Created", "Locked", "Burned", "Minted", "Settled"}

VARIABLES
    config,     \* config account -> ProgramConfig stored in it
    ghost,      \* ghost account -> GhostAccount stored in it
    pool,       \* pool account -> LiquidityPool stored in it
    position,   \* position account -> LPPosition stored in it
    written,    \* the pool and position accounts that hold a serialized record
    lamports,   \* pool account -> its lamports above the rent reserve
    intent,     \* intent account -> PaymentIntent stored in it
    overflow_checks, \* the build: TRUE when arithmetic overflow panics
    last        \* the last instruction processed and its result

vars == <<config, ghost, pool, position, written, lamports, intent,
          overflow_checks, last>>

\* What the registry and ledger handlers leave alone.
poolState == <<pool, position, written, lamports, intent, overflow_checks>>
\* What the pool handlers leave alone.
ledgerState == <<config, ghost, intent, overflow_checks>>

\* The accounts owned by the program that the model tracks.
ConfigAccts == {"c1"}
GhostAccts == {"g1"}
PoolAccts == {"p1"}
PosAccts == {"q1", "q2"}
\* Pool seeds.
Seeds == {"seedA"}
\* Payment intent ids.
IntentIds == {"intent1"}
IntentAccts == {"i1"}

ProgramOwned(a) == a # Foreign

\* What a call leaves in `last`: the instruction, its result code and the
\* msg! line of a successful call.
Outcome(op, r, okmsg) ==
    [op |-> op, result |-> r, log |-> IF r = "Ok" THEN okmsg ELSE "",
     vals |-> <<>>]

(***************************************************************************)
(* ProgramConfig                                                           *)
(***************************************************************************)
\* A zeroed config account deserializes to a registry with the all-zero admin
\* and an empty validator list.
ZeroConfig ==
    [admin |-> Zero32, validator_threshold |-> 0, max_validators |-> 0,
     validators |-> <<>>]

is_validator(cfg, key) == \E i \in 1..Len(cfg.validators) : cfg.validators[i] = key

\* An assert_validator that lets every identity through.
assert_validator_open(cfg, key) == "Ok"

assert_validator(cfg, key) ==
    IF is_validator(cfg, key) THEN "Ok" ELSE "UnauthorizedValidator"

load_config_err(c) == IF ~ProgramOwned(c) THEN "IncorrectProgramId" ELSE "Ok"

ensure_admin(cfg, signerKey, isSigner) ==
    IF ~isSigner \/ signerKey # cfg.admin THEN "UnauthorizedAdmin" ELSE "Ok"

initialize_result(c, isSigner) ==
    IF ~isSigner THEN "MissingSigner"
    ELSE IF ~ProgramOwned(c) THEN "IncorrectProgramId"
    ELSE "Ok"

initialize(c, isSigner, admin, threshold, maxv) ==
    LET r == initialize_result(c, isSigner) IN
    /\ config' = IF r = "Ok"
                 THEN [config EXCEPT ![c] =
                          [admin |-> admin, validator_threshold |-> threshold,
                           max_validators |-> maxv, validators |-> <<>>]]
                 ELSE config
    /\ last' = Outcome("Initialize", r, "Ghost program initialized")
    /\ UNCHANGED <<ghost, poolState>>

\* A set_validator that forgets the ValidatorLimit check.
set_validator_result_unlimited(c, signerKey, isSigner, validator, enabled) ==
    IF load_config_err(c) # "Ok" THEN load_config_err(c)
    ELSE IF ensure_admin(config[c], signerKey, isSigner) # "Ok"
         THEN ensure_admin(config[c], signerKey, isSigner)
    ELSE "Ok"

set_validator_result(c, signerKey, isSigner, validator, enabled) ==
    IF load_config_err(c) # "Ok" THEN load_config_err(c)
    ELSE IF ensure_admin(config[c], signerKey, isSigner) # "Ok"
         THEN ensure_admin(config[c], signerKey, isSigner)
    ELSE IF /\ enabled
            /\ ~is_validator(config[c], validator)
            /\ Len(config[c].validators) >= config[c].max_validators
         THEN "ValidatorLimit"
    ELSE "Ok"

set_validator_list(cfg, validator, enabled) ==
    IF enabled
    THEN IF is_validator(cfg, validator) THEN cfg.validators
         ELSE Append(cfg.validators, validator)
    ELSE SelectSeq(cfg.validators, LAMBDA v : v # validator)

set_validator(c, signerKey, isSigner, validator, enabled) ==
    LET r == set_validator_result(c, signerKey, isSigner, validator, enabled) IN
    /\ config' = IF r = "Ok"
                 THEN [config EXCEPT ![c].validators =
                          set_validator_list(config[c], validator, enabled)]
                 ELSE config
    /\ last' = Outcome("SetValidator", r, "Validator updated")
    /\ UNCHANGED <<ghost, poolState>>

(***************************************************************************)
(* GhostAccount                                                            *)
(***************************************************************************)
\* The record load_with_validator substitutes for an unwritten slot.
DefaultGhost ==
    [ghost_id |-> Zero32, initiator |-> Zero32, source_token |-> Zero32,
     destination_token |-> Zero32, destination_chain |-> 0,
     destination_address |-> ZeroAddr, state |-> "None", amount |-> 0,
     lock_ts |-> 0, burn_ts |-> 0, mint_ts |-> 0, burn_proof |-> Zero32,
     mint_proof |-> Zero32, is_remote |-> FALSE, remote_ack |-> FALSE]

create_ghost_result(c, g, isSigner) ==
    IF load_config_err(c) # "Ok" THEN load_config_err(c)
    ELSE IF ~isSigner THEN "MissingSigner"
    ELSE IF ~ProgramOwned(g) THEN "IncorrectProgramId"
    ELSE "Ok"

create_ghost(c, g, payer, isSigner, id, amount, chain, addr, stok, dtok, now) ==
    LET r == create_ghost_result(c, g, isSigner) IN
    /\ ghost' = IF r = "Ok"
                THEN [ghost EXCEPT ![g] =
                        [ghost_id |-> id, initiator |-> payer,
                         source_token |-> stok, destination_token |-> dtok,
                         destination_chain |-> chain,
                         destination_address |-> addr, state |-> "Created",
                         amount |-> amount, lock_ts |-> now, burn_ts |-> 0,
                         mint_ts |-> 0, burn_proof |-> Zero32,
                         mint_proof |-> Zero32, is_remote |-> FALSE,
                         remote_ack |-> FALSE]]
                ELSE ghost
    /\ last' = Outcome("CreateGhost", r, "Ghost created")
    /\ UNCHANGED <<config, poolState>>

\* A load_with_validator that forgets to compare the ghost ids.
load_with_validator_unmatched(c, g, v, isSigner, id) ==
    IF load_config_err(c) # "Ok" THEN load_config_err(c)
    ELSE IF assert_validator(config[c], v) # "Ok"
         THEN assert_validator(config[c], v)
    ELSE IF ~isSigner THEN "MissingSigner"
    ELSE IF ~ProgramOwned(g) THEN "IncorrectProgramId"
    ELSE "Ok"

\* The cross-cutting guard of every validator-gated ghost operation.
load_with_validator(c, g, v, isSigner, id) ==
    IF load_config_err(c) # "Ok" THEN load_config_err(c)
    ELSE IF assert_validator(config[c], v) # "Ok"
         THEN assert_validator(config[c], v)
    ELSE IF ~isSigner THEN "MissingSigner"
    ELSE IF ~ProgramOwned(g) THEN "IncorrectProgramId"
    ELSE IF ghost[g].ghost_id # id /\ ghost[g].state # "None" THEN "GhostMismatch"
    ELSE "Ok"

\* write_ghost: the handler's record replaces the slot's when the call succeeds.
write_ghost(g, r, rec) == IF r = "Ok" THEN [ghost EXCEPT ![g] = rec] ELSE ghost

\* A lock_ghost that forgets its state check.
lock_ghost_result_unguarded(c, g, v, isSigner, id) ==
    load_with_validator(c, g, v, isSigner, id)

lock_ghost_result(c, g, v, isSigner, id) ==
    IF load_with_validator(c, g, v, isSigner, id) # "Ok"
    THEN load_with_validator(c, g, v, isSigner, id)
    ELSE IF ghost[g].state # "Created" THEN "InvalidState"
    ELSE "Ok"

lock_ghost(c, g, v, isSigner, id, now) ==
    LET r == lock_ghost_result(c, g, v, isSigner, id) IN
    /\ ghost' = write_ghost(g, r,
                    [ghost[g] EXCEPT !.state = "Locked", !.lock_ts = now])
    /\ last' = Outcome("LockGhost", r, "Ghost locked")
    /\ UNCHANGED <<config, poolState>>

burn_ghost_result(c, g, v, isSigner, id) ==
    IF load_with_validator(c, g, v, isSigner, id) # "Ok"
    THEN load_with_validator(c, g, v, isSigner, id)
    ELSE IF ghost[g].state # "Locked" THEN "InvalidState"
    ELSE "Ok"

burn_ghost(c, g, v, isSigner, id, proof, now) ==
    LET r == burn_ghost_result(c, g, v, isSigner, id) IN
    /\ ghost' = write_ghost(g, r,
                    [ghost[g] EXCEPT !.state = "Burned", !.burn_ts = now,
                                     !.burn_proof = proof])
    /\ last' = Outcome("BurnGhost", r, "Ghost burned")
    /\ UNCHANGED <<config, poolState>>

\* A mirror_ghost that forgets its GhostExists check.
mirror_ghost_result_unguarded(c, g, v, isSigner, id) ==
    load_with_validator(c, g, v, isSigner, id)

mirror_ghost_result(c, g, v, isSigner, id) ==
    IF load_with_validator(c, g, v, isSigner, id) # "Ok"
    THEN load_with_validator(c, g, v, isSigner, id)
    ELSE IF ghost[g].state # "None" /\ ~ghost[g].is_remote THEN "GhostExists"
    ELSE "Ok"

mirror_ghost(c, g, v, isSigner, id, chain, amount, proof, stok, dtok, now) ==
    LET r == mirror_ghost_result(c, g, v, isSigner, id) IN
    /\ ghost' = write_ghost(g, r,
                    [ghost[g] EXCEPT !.ghost_id = id, !.initiator = Zero32,
                                     !.source_token = stok,
                                     !.destination_token = dtok,
                                     !.destination_chain = chain,
                                     !.state = "Burned", !.amount = amount,
                                     !.burn_ts = now, !.burn_proof = proof,
                                     !.is_remote = TRUE])
    /\ last' = Outcome("MirrorGhost", r, "Ghost mirrored from remote chain")
    /\ UNCHANGED <<config, poolState>>

mint_ghost_result(c, g, v, isSigner, id) ==
    IF load_with_validator(c, g, v, isSigner, id) # "Ok"
    THEN load_with_validator(c, g, v, isSigner, id)
    ELSE IF ghost[g].state # "Burned" THEN "InvalidState"
    ELSE "Ok"

mint_ghost(c, g, v, isSigner, id, proof, recipient, now) ==
    LET r == mint_ghost_result(c, g, v, isSigner, id) IN
    /\ ghost' = write_ghost(g, r,
                    [ghost[g] EXCEPT !.state = "Minted", !.mint_ts = now,
                                     !.mint_proof = proof,
                                     !.destination_address =
                                         <<recipient, @[2]>>])
    /\ last' = Outcome("MintGhost", r, "Ghost minted")
    /\ UNCHANGED <<config, poolState>>

ack_remote_result(c, g, v, isSigner, id) ==
    IF load_with_validator(c, g, v, isSigner, id) # "Ok"
    THEN load_with_validator(c, g, v, isSigner, id)
    ELSE IF ghost[g].state # "Burned" THEN "InvalidState"
    ELSE "Ok"

ack_remote(c, g, v, isSigner, id) ==
    LET r == ack_remote_result(c, g, v, isSigner, id) IN
    /\ ghost' = write_ghost(g, r, [ghost[g] EXCEPT !.remote_ack = TRUE])
    /\ last' = Outcome("AcknowledgeRemote", r, "Remote mint acknowledged")
    /\ UNCHANGED <<config, poolState>>

destroy_ghost_result(c, g, v, isSigner, id) ==
    IF load_with_validator(c, g, v, isSigner, id) # "Ok"
    THEN load_with_validator(c, g, v, isSigner, id)
    ELSE IF ghost[g].state # "Minted" /\ ~ghost[g].remote_ack THEN "InvalidState"
    ELSE "Ok"

destroy_ghost(c, g, v, isSigner, id) ==
    LET r == destroy_ghost_result(c, g, v, isSigner, id) IN
    /\ ghost' = write_ghost(g, r, [ghost[g] EXCEPT !.state = "Settled"])
    /\ last' = Outcome("DestroyGhost", r, "Ghost destroyed/settled")
    /\ UNCHANGED <<config, poolState>>

(***************************************************************************)
(* LiquidityPool and LPPosition                                            *)
(*                                                                         *)
(* A pool or position account that was never written does not deserialize  *)
(* with try_from_slice; deposit_to_pool has transferred the lamports and   *)
(* serialized the pool by the time it finds the position account too       *)
(* short, and the failed instruction then leaves neither behind.  The u64 counters are WordBits wide; unchecked     *)
(* +=/-= panics in a build with overflow checks and wraps in one without,  *)
(* and `as u64` truncates.  A panic fails the instruction.                 *)
(***************************************************************************)
Modulus == 2 ^ WordBits
Wrap(x) == x % Modulus
Fits(x) == 0 <= x /\ x < Modulus

ZeroPool ==
    [seed |-> Zero32, total_deposited |-> 0, total_shares |-> 0,
     total_fees |-> 0, available_liquidity |-> 0, active |-> FALSE]
ZeroPosition == [owner |-> Zero32, pool |-> Zero32, shares |-> 0, deposited_at |-> 0]

\* The lamports not held by any pool: what depositors can bring between them.
Outside ==
    LET Sum[S \in SUBSET DOMAIN lamports] ==
            IF S = {} THEN 0
            ELSE LET a == CHOOSE x \in S : TRUE IN lamports[a] + Sum[S \ {a}]
    IN Supply - Sum[DOMAIN lamports]

initialize_pool_result(p, isSigner) ==
    IF ~isSigner THEN "MissingSigner"
    ELSE IF ~ProgramOwned(p) THEN "IncorrectProgramId"
    ELSE "Ok"

initialize_pool(p, isSigner, seed) ==
    LET r == initialize_pool_result(p, isSigner) IN
    /\ pool' = IF r = "Ok"
               THEN [pool EXCEPT ![p] =
                       [seed |-> seed, total_deposited |-> 0, total_shares |-> 0,
                        total_fees |-> 0, available_liquidity |-> 0,
                        active |-> TRUE]]
               ELSE pool
    /\ written' = IF r = "Ok" THEN written \cup {p} ELSE written
    /\ last' = Outcome("InitializePool", r, "Liquidity pool initialized")
    /\ UNCHANGED <<position, lamports, ledgerState>>

\* let shares = if pool.total_shares == 0 { amount } else { (.. / ..) as u64 }
deposit_shares(pl, amount) ==
    IF pl.total_shares = 0 THEN amount
    ELSE Wrap((amount * pl.total_shares) \div pl.total_deposited)

\* try_from_slice(..).unwrap_or(LPPosition { owner: depositor, pool: seed, .. })
deposit_position(q, depositor, seed) ==
    IF q \in written THEN position[q]
    ELSE [owner |-> depositor, pool |-> seed, shares |-> 0, deposited_at |-> 0]

\* TRUE when one of the += of deposit_to_pool leaves the u64 range.
deposit_overflows(p, q, depositor, amount) ==
    LET sh == deposit_shares(pool[p], amount) IN
    \/ ~Fits(pool[p].total_deposited + amount)
    \/ ~Fits(pool[p].total_shares + sh)
    \/ ~Fits(pool[p].available_liquidity + amount)
    \/ ~Fits(deposit_position(q, depositor, pool[p].seed).shares + sh)

\* <<result code, msg! line of the failure>>
deposit_to_pool_result(p, q, depositor, isSigner, amount) ==
    IF ~isSigner THEN <<"MissingSigner", "">>
    ELSE IF ~ProgramOwned(p) THEN <<"IncorrectProgramId", "">>
    ELSE IF p \notin written THEN <<"AccountDeserialization", "">>
    ELSE IF ~pool[p].active THEN <<"InvalidAccountData", "Pool not active">>
    ELSE IF pool[p].total_shares # 0 /\ pool[p].total_deposited = 0
         THEN <<"Panic", "attempt to divide by zero">>
    ELSE IF amount > Outside THEN <<"TransferFailed", "insufficient lamports">>
    ELSE IF overflow_checks /\ deposit_overflows(p, q, depositor, amount)
         THEN <<"Panic", "attempt to add with overflow">>
    ELSE IF q = Undersized THEN <<"AccountSerialization", "">>
    ELSE <<"Ok", "">>

\* A deposit_to_pool whose transfer and pool record outlive the failure to
\* serialize the position.
deposit_to_pool_partial(p, q, depositor, isSigner, amount, now) ==
    LET r == deposit_to_pool_result(p, q, depositor, isSigner, amount)
        sh == deposit_shares(pool[p], amount)
        pos == deposit_position(q, depositor, pool[p].seed)
    IN
    /\ IF r[1] \in {"Ok", "AccountSerialization"}
       THEN /\ pool' = [pool EXCEPT
                    ![p].total_deposited = Wrap(@ + amount),
                    ![p].total_shares = Wrap(@ + sh),
                    ![p].available_liquidity = Wrap(@ + amount)]
            /\ lamports' = [lamports EXCEPT ![p] = @ + amount]
       ELSE UNCHANGED <<pool, lamports>>
    /\ IF r[1] = "Ok"
       THEN /\ position' = [position EXCEPT ![q] =
                    [pos EXCEPT !.shares = Wrap(@ + sh), !.deposited_at = now]]
            /\ written' = written \cup {q}
            /\ last' = [op |-> "DepositToPool", result |-> "Ok",
                        log |-> "Deposited {} lamports, received {} shares",
                        vals |-> <<amount, sh>>]
       ELSE /\ UNCHANGED <<position, written>>
            /\ last' = [op |-> "DepositToPool", result |-> r[1],
                        log |-> r[2], vals |-> <<>>]
    /\ UNCHANGED ledgerState

deposit_to_pool(p, q, depositor, isSigner, amount, now) ==
    LET r == deposit_to_pool_result(p, q, depositor, isSigner, amount)
        sh == deposit_shares(pool[p], amount)
        pos == deposit_position(q, depositor, pool[p].seed)
    IN
    /\ IF r[1] = "Ok"
       THEN /\ pool' = [pool EXCEPT
                    ![p].total_deposited = Wrap(@ + amount),
                    ![p].total_shares = Wrap(@ + sh),
                    ![p].available_liquidity = Wrap(@ + amount)]
            /\ position' = [position EXCEPT ![q] =
                    [pos EXCEPT !.shares = Wrap(@ + sh), !.deposited_at = now]]
            /\ written' = written \cup {q}
            /\ lamports' = [lamports EXCEPT ![p] = @ + amount]
            /\ last' = [op |-> "DepositToPool", result |-> "Ok",
                        log |-> "Deposited {} lamports, received {} shares",
                        vals |-> <<amount, sh>>]
       ELSE /\ UNCHANGED <<pool, position, written, lamports>>
            /\ last' = [op |-> "DepositToPool", result |-> r[1],
                        log |-> r[2], vals |-> <<>>]
    /\ UNCHANGED ledgerState

\* A payout that forgets to divide by the shares outstanding.
withdraw_amount_unscaled(pl, shares) ==
    Wrap(shares * pl.total_deposited)

\* let amount = (shares * total_deposited / total_shares) as u64
withdraw_amount(pl, shares) ==
    Wrap((shares * pl.total_deposited) \div pl.total_shares)

\* TRUE when one of the -= of withdraw_from_pool leaves the u64 range.
withdraw_overflows(p, q, shares) ==
    LET amt == withdraw_amount(pool[p], shares) IN
    \/ ~Fits(pool[p].total_deposited - amt)
    \/ ~Fits(pool[p].total_shares - shares)
    \/ ~Fits(pool[p].available_liquidity - amt)
    \/ ~Fits(position[q].shares - shares)

withdraw_from_pool_result(p, q, withdrawer, isSigner, shares) ==
    IF ~isSigner THEN <<"MissingSigner", "">>
    ELSE IF ~ProgramOwned(p) THEN <<"IncorrectProgramId", "">>
    ELSE IF p \notin written THEN <<"AccountDeserialization", "">>
    ELSE IF q \notin written THEN <<"AccountDeserialization", "">>
    ELSE IF position[q].owner # withdrawer
         THEN <<"InvalidAccountData", "Not position owner">>
    ELSE IF position[q].shares < shares
         THEN <<"InsufficientFunds", "Insufficient shares">>
    ELSE IF pool[p].total_shares = 0
         THEN <<"Panic", "attempt to divide by zero">>
    ELSE IF pool[p].available_liquidity < withdraw_amount(pool[p], shares)
         THEN <<"InsufficientFunds", "Insufficient pool liquidity">>
    ELSE IF lamports[p] < withdraw_amount(pool[p], shares)
         THEN <<"Panic", "attempt to subtract with overflow">>
    ELSE IF overflow_checks /\ withdraw_overflows(p, q, shares)
         THEN <<"Panic", "attempt to subtract with overflow">>
    ELSE <<"Ok", "">>

withdraw_from_pool(p, q, withdrawer, isSigner, shares) ==
    LET r == withdraw_from_pool_result(p, q, withdrawer, isSigner, shares)
        amt == withdraw_amount(pool[p], shares)
    IN
    /\ IF r[1] = "Ok"
       THEN /\ pool' = [pool EXCEPT
                    ![p].total_deposited = Wrap(@ - amt),
                    ![p].total_shares = Wrap(@ - shares),
                    ![p].available_liquidity = Wrap(@ - amt)]
            /\ position' = [position EXCEPT ![q].shares = Wrap(@ - shares)]
            /\ lamports' = [lamports EXCEPT ![p] = @ - amt]
            /\ last' = [op |-> "WithdrawFromPool", result |-> "Ok",
                        log |-> "Withdrew {} lamports for {} shares",
                        vals |-> <<amt, shares>>]
       ELSE /\ UNCHANGED <<pool, position, lamports>>
            /\ last' = [op |-> "WithdrawFromPool", result |-> r[1],
                        log |-> r[2], vals |-> <<>>]
    /\ UNCHANGED <<written, ledgerState>>

\* An execute_payment that forgets its liquidity check.
execute_payment_result_unchecked(c, p, recipientKey, relayer, isSigner, recipient, amount) ==
    IF load_config_err(c) # "Ok" THEN <<load_config_err(c), "">>
    ELSE IF assert_validator(config[c], relayer) # "Ok"
         THEN <<assert_validator(config[c], relayer), "">>
    ELSE IF ~isSigner THEN <<"MissingSigner", "">>
    ELSE IF ~ProgramOwned(p) THEN <<"IncorrectProgramId", "">>
    ELSE IF recipientKey # recipient
         THEN <<"InvalidAccountData", "Recipient mismatch">>
    ELSE IF p \notin written THEN <<"AccountDeserialization", "">>
    ELSE <<"Ok", "">>

execute_payment_result(c, p, recipientKey, relayer, isSigner, recipient, amount) ==
    IF load_config_err(c) # "Ok" THEN <<load_config_err(c), "">>
    ELSE IF assert_validator(config[c], relayer) # "Ok"
         THEN <<assert_validator(config[c], relayer), "">>
    ELSE IF ~isSigner THEN <<"MissingSigner", "">>
    ELSE IF ~ProgramOwned(p) THEN <<"IncorrectProgramId", "">>
    ELSE IF recipientKey # recipient
         THEN <<"InvalidAccountData", "Recipient mismatch">>
    ELSE IF p \notin written THEN <<"AccountDeserialization", "">>
    ELSE IF pool[p].available_liquidity < amount
         THEN <<"InsufficientFunds", "Insufficient pool liquidity: {} < {}">>
    ELSE IF lamports[p] < amount
         THEN <<"Panic", "attempt to subtract with overflow">>
    ELSE <<"Ok", "">>

\* An execute_payment that pays the lamports out and forgets to lower
\* available_liquidity.
execute_payment_unrecorded(c, p, recipientKey, relayer, isSigner, intent_id, recipient, amount) ==
    LET r == execute_payment_result(c, p, recipientKey, relayer, isSigner,
                                    recipient, amount)
    IN
    /\ IF r[1] = "Ok"
       THEN /\ lamports' = [lamports EXCEPT ![p] = @ - amount]
            /\ last' = [op |-> "ExecutePayment", result |-> "Ok",
                        log |-> "Payment executed: {} lamports to {} (intent: {:?})",
                        vals |-> <<amount>>]
       ELSE /\ UNCHANGED lamports
            /\ last' = [op |-> "ExecutePayment", result |-> r[1],
                        log |-> r[2], vals |-> <<>>]
    /\ UNCHANGED <<pool, position, written, ledgerState>>

\* An execute_payment that marks the intents it pays as executed.
execute_payment_settling(c, p, recipientKey, relayer, isSigner, intent_id, recipient, amount) ==
    LET r == execute_payment_result(c, p, recipientKey, relayer, isSigner,
                                    recipient, amount)
    IN
    /\ IF r[1] = "Ok"
       THEN /\ pool' = [pool EXCEPT ![p].available_liquidity = Wrap(@ - amount)]
            /\ lamports' = [lamports EXCEPT ![p] = @ - amount]
            /\ intent' = [i \in DOMAIN intent |->
                            IF intent[i].intent_id = intent_id
                            THEN [intent[i] EXCEPT !.executed = TRUE,
                                                   !.recipient = recipient]
                            ELSE intent[i]]
            /\ last' = [op |-> "ExecutePayment", result |-> "Ok",
                        log |-> "Payment executed: {} lamports to {} (intent: {:?})",
                        vals |-> <<amount>>]
       ELSE /\ UNCHANGED <<pool, lamports, intent>>
            /\ last' = [op |-> "ExecutePayment", result |-> r[1],
                        log |-> r[2], vals |-> <<>>]
    /\ UNCHANGED <<position, written, config, ghost, overflow_checks>>

execute_payment(c, p, recipientKey, relayer, isSigner, intent_id, recipient, amount) ==
    LET r == execute_payment_result(c, p, recipientKey, relayer, isSigner,
                                    recipient, amount)
    IN
    /\ IF r[1] = "Ok"
       THEN /\ pool' = [pool EXCEPT ![p].available_liquidity = Wrap(@ - amount)]
            /\ lamports' = [lamports EXCEPT ![p] = @ - amount]
            /\ last' = [op |-> "ExecutePayment", result |-> "Ok",
                        log |-> "Payment executed: {} lamports to {} (intent: {:?})",
                        vals |-> <<amount>>]
       ELSE /\ UNCHANGED <<pool, lamports>>
            /\ last' = [op |-> "ExecutePayment", result |-> r[1],
                        log |-> r[2], vals |-> <<>>]
    /\ UNCHANGED <<position, written, ledgerState>>

(***************************************************************************)
(* PaymentIntent                                                           *)
(***************************************************************************)
\* The content of an intent account that was never written.
ZeroIntent ==
    [intent_id |-> Zero32, sender_chain |-> 0, sender_address |-> ZeroAddr,
     amount |-> 0, dest_token |-> Zero32, recipient |-> Zero32,
     executed |-> FALSE, timestamp |-> 0]

record_payment_intent_result(c, i, relayer, isSigner) ==
    IF load_config_err(c) # "Ok" THEN load_config_err(c)
    ELSE IF assert_validator(config[c], relayer) # "Ok"
         THEN assert_validator(config[c], relayer)
    ELSE IF ~isSigner THEN "MissingSigner"
    ELSE IF ~ProgramOwned(i) THEN "IncorrectProgramId"
    ELSE "Ok"

record_payment_intent(c, i, relayer, isSigner, intent_id, sender_chain, sender_address, amount, dest_token, now) ==
    LET r == record_payment_intent_result(c, i, relayer, isSigner) IN
    /\ intent' = IF r = "Ok"
                 THEN [intent EXCEPT ![i] =
                         [intent_id |-> intent_id, sender_chain |-> sender_chain,
                          sender_address |-> sender_address, amount |-> amount,
                          dest_token |-> dest_token, recipient |-> Zero32,
                          executed |-> FALSE, timestamp |-> now]]
                 ELSE intent
    /\ last' = Outcome("RecordPaymentIntent", r, "Payment intent recorded: {:?}")
    /\ UNCHANGED <<config, ghost, pool, position, written, lamports,
                   overflow_checks>>

(***************************************************************************)
(* The ledger specification: one registry, one ghost slot.                 *)
(***************************************************************************)
Init ==
    /\ config = [c \in ConfigAccts |-> ZeroConfig]
    /\ ghost = [g \in GhostAccts |-> DefaultGhost]
    /\ pool = [p \in PoolAccts |-> ZeroPool]
    /\ position = [q \in PosAccts |-> ZeroPosition]
    /\ written = {}
    /\ lamports = [p \in PoolAccts |-> 0]
    /\ intent = [i \in IntentAccts |-> ZeroIntent]
    /\ overflow_checks = FALSE
    /\ last = [op |-> "none", result |-> "Ok", log |-> "", vals |-> <<>>]

\* Callers of the ledger specification: alice administers, bob validates.
Admins == {"alice"}
Validators == {"bob"}
Callers == {"bob", "carol"}
CfgArgs == ConfigAccts \cup {Foreign}
GhostArgs == GhostAccts \cup {Foreign}

Initialize ==
    \E c \in CfgArgs, sg \in BOOLEAN, a \in Admins :
        initialize(c, sg, a, 1, 1)

SetValidator ==
    \E c \in CfgArgs, k \in Admins \cup Validators, sg \in BOOLEAN,
       v \in Validators, en \in BOOLEAN :
        set_validator(c, k, sg, v, en)

CreateGhost ==
    \E c \in CfgArgs, g \in GhostArgs, p \in Callers, sg \in BOOLEAN,
       id \in GhostIds, amt \in GhostAmounts, ch \in Chains, ad \in DestAddrs,
       st \in Tokens, dt \in Tokens, now \in Timestamps :
        create_ghost(c, g, p, sg, id, amt, ch, ad, st, dt, now)

LockGhost ==
    \E c \in ConfigAccts, g \in GhostArgs, v \in Callers, sg \in BOOLEAN,
       id \in GhostIds, now \in Timestamps :
        lock_ghost(c, g, v, sg, id, now)

BurnGhost ==
    \E c \in ConfigAccts, g \in GhostArgs, v \in Callers, sg \in BOOLEAN,
       id \in GhostIds, pr \in Proofs, now \in Timestamps :
        burn_ghost(c, g, v, sg, id, pr, now)

MirrorGhost ==
    \E c \in ConfigAccts, g \in GhostArgs, v \in Callers, sg \in BOOLEAN,
       id \in GhostIds, ch \in Chains, amt \in GhostAmounts, pr \in Proofs,
       st \in Tokens, dt \in Tokens, now \in Timestamps :
        mirror_ghost(c, g, v, sg, id, ch, amt, pr, st, dt, now)

MintGhost ==
    \E c \in ConfigAccts, g \in GhostArgs, v \in Callers, sg \in BOOLEAN,
       id \in GhostIds, pr \in Proofs, rc \in Callers, now \in Timestamps :
        mint_ghost(c, g, v, sg, id, pr, rc, now)

AcknowledgeRemote ==
    \E c \in ConfigAccts, g \in GhostArgs, v \in Callers, sg \in BOOLEAN,
       id \in GhostIds :
        ack_remote(c, g, v, sg, id)

DestroyGhost ==
    \E c \in ConfigAccts, g \in GhostArgs, v \in Callers, sg \in BOOLEAN,
       id \in GhostIds :
        destroy_ghost(c, g, v, sg, id)

Next ==
    \/ Initialize
    \/ SetValidator
    \/ CreateGhost
    \/ LockGhost
    \/ BurnGhost
    \/ MirrorGhost
    \/ MintGhost
    \/ AcknowledgeRemote
    \/ DestroyGhost

Spec == Init /\ [][Next]_vars

(***************************************************************************)
(* The registry specification: Initialize and SetValidator alone, with two  *)
(* would-be admins, three candidate validators and every max_validators up  *)
(* to MaxValidators.                                                        *)
(***************************************************************************)
RegistryAdmins == {"alice", "mallory"}
Candidates == {"bob", "carol", "dave"}
Limits == 0..MaxValidators

RegistryInitialize ==
    \E c \in CfgArgs, sg \in BOOLEAN, a \in RegistryAdmins, maxv \in Limits :
        initialize(c, sg, a, 1, maxv)

RegistrySetValidator ==
    \E c \in CfgArgs, k \in RegistryAdmins, sg \in BOOLEAN, v \in Candidates,
       en \in BOOLEAN :
        set_validator(c, k, sg, v, en)

NextRegistry ==
    \/ RegistryInitialize
    \/ RegistrySetValidator

SpecRegistry == Init /\ [][NextRegistry]_vars

(***************************************************************************)
(* The pool specification: one pool, two position accounts, a registry     *)
(* already initialized by alice with bob enabled, either build.            *)
(***************************************************************************)
InitPool ==
    /\ config = [c \in ConfigAccts |->
                    [admin |-> "alice", validator_threshold |-> 1,
                     max_validators |-> 1, validators |-> <<"bob">>]]
    /\ ghost = [g \in GhostAccts |-> DefaultGhost]
    /\ pool = [p \in PoolAccts |-> ZeroPool]
    /\ position = [q \in PosAccts |-> ZeroPosition]
    /\ written = {}
    /\ lamports = [p \in PoolAccts |-> 0]
    /\ intent = [i \in IntentAccts |-> ZeroIntent]
    /\ overflow_checks \in BOOLEAN
    /\ last = [op |-> "none", result |-> "Ok", log |-> "", vals |-> <<>>]

Depositors == {"alice", "carol"}
PoolArgs == PoolAccts \cup {Foreign}
\* The position accounts the pool specification deposits to and withdraws from.
PoolPositions == {"q1"}
\* Amounts and share counts passed to the pool instructions.
Amounts == 0..Supply

InitializePool ==
    \E p \in PoolArgs, sg \in BOOLEAN, sd \in Seeds :
        initialize_pool(p, sg, sd)

DepositToPool ==
    \E p \in PoolAccts, q \in PoolPositions, d \in Depositors, sg \in BOOLEAN,
       amt \in Amounts, now \in Timestamps :
        deposit_to_pool(p, q, d, sg, amt, now)

WithdrawFromPool ==
    \E p \in PoolAccts, q \in PoolPositions, w \in Depositors, sg \in BOOLEAN,
       sh \in Amounts :
        withdraw_from_pool(p, q, w, sg, sh)

ExecutePayment ==
    \E c \in ConfigAccts, p \in PoolAccts, rk \in Depositors, rl \in Callers,
       sg \in BOOLEAN, it \in IntentIds, rc \in {"carol"}, amt \in Amounts :
        execute_payment(c, p, rk, rl, sg, it, rc, amt)

NextPool ==
    \/ InitializePool
    \/ DepositToPool
    \/ WithdrawFromPool
    \/ ExecutePayment

SpecPool == InitPool /\ [][NextPool]_vars

(***************************************************************************)
(* The program specification: every instruction of the program on one      *)
(* account of each kind.  alice administers and funds the pool, bob is the  *)
(* validator and relayer she enables, carol is the outsider.  The build is  *)
(* the one with overflow checks, in which the pool handlers have every way  *)
(* to fail that they have in the other build and the overflow panic as      *)
(* well; the build that wraps is that of the pool specification.            *)
(***************************************************************************)
InitProgram ==
    /\ config = [c \in ConfigAccts |-> ZeroConfig]
    /\ ghost = [g \in GhostAccts |-> DefaultGhost]
    /\ pool = [p \in PoolAccts |-> ZeroPool]
    /\ position = [q \in PosAccts |-> ZeroPosition]
    /\ written = {}
    /\ lamports = [p \in PoolAccts |-> 0]
    /\ intent = [i \in IntentAccts |-> ZeroIntent]
    /\ overflow_checks = TRUE
    /\ last = [op |-> "none", result |-> "Ok", log |-> "", vals |-> <<>>]

\* The ghost id the program specification uses, and the lamports its pool
\* instructions move: everything in circulation at once.
TheGhost == "idA"
Stakes == {Supply}
PosArgs == PoolPositions \cup {Undersized}

CallInitialize ==
    \E c \in ConfigAccts, a \in Admins : initialize(c, TRUE, a, 1, 1)

CallSetValidator ==
    \E c \in ConfigAccts, k \in Admins, v \in Validators, en \in BOOLEAN :
        set_validator(c, k, TRUE, v, en)

CallCreateGhost ==
    \E c \in ConfigAccts, g \in GhostAccts, ch \in Chains, ad \in DestAddrs,
       tk \in Tokens, amt \in GhostAmounts :
        create_ghost(c, g, "carol", TRUE, TheGhost, amt, ch, ad, tk, tk, MaxClock)

CallLockGhost ==
    \E c \in ConfigAccts, g \in GhostAccts, v \in Callers, sg \in BOOLEAN :
        lock_ghost(c, g, v, sg, TheGhost, MaxClock)

CallBurnGhost ==
    \E c \in ConfigAccts, g \in GhostAccts, v \in Callers, sg \in BOOLEAN,
       pr \in Proofs :
        burn_ghost(c, g, v, sg, TheGhost, pr, MaxClock)

CallMirrorGhost ==
    \E c \in ConfigAccts, g \in GhostAccts, v \in Callers, sg \in BOOLEAN,
       ch \in Chains, amt \in GhostAmounts, pr \in Proofs, tk \in Tokens :
        mirror_ghost(c, g, v, sg, TheGhost, ch, amt, pr, tk, tk, MaxClock)

CallMintGhost ==
    \E c \in ConfigAccts, g \in GhostAccts, v \in Callers, sg \in BOOLEAN,
       pr \in Proofs :
        mint_ghost(c, g, v, sg, TheGhost, pr, "carol", MaxClock)

CallAcknowledgeRemote ==
    \E c \in ConfigAccts, g \in GhostAccts, v \in Callers, sg \in BOOLEAN :
        ack_remote(c, g, v, sg, TheGhost)

CallDestroyGhost ==
    \E c \in ConfigAccts, g \in GhostAccts, v \in Callers, sg \in BOOLEAN :
        destroy_ghost(c, g, v, sg, TheGhost)

CallInitializePool ==
    \E p \in PoolAccts, sd \in Seeds : initialize_pool(p, TRUE, sd)

CallDepositToPool ==
    \E p \in PoolAccts, q \in PosArgs, amt \in Stakes :
        deposit_to_pool(p, q, "alice", TRUE, amt, MaxClock)

CallWithdrawFromPool ==
    \E p \in PoolAccts, q \in PosArgs, w \in Depositors, sh \in Stakes :
        withdraw_from_pool(p, q, w, TRUE, sh)

CallExecutePayment ==
    \E c \in ConfigAccts, p \in PoolAccts, rl \in Callers, sg \in BOOLEAN,
       it \in IntentIds, amt \in Stakes :
        execute_payment(c, p, "carol", rl, sg, it, "carol", amt)

CallRecordPaymentIntent ==
    \E c \in ConfigAccts, i \in IntentAccts, rl \in Callers, sg \in BOOLEAN,
       it \in IntentIds, ch \in Chains, ad \in DestAddrs, amt \in GhostAmounts,
       tk \in Tokens :
        record_payment_intent(c, i, rl, sg, it, ch, ad, amt, tk, MaxClock)

NextProgram ==
    \/ CallInitialize
    \/ CallSetValidator
    \/ CallCreateGhost
    \/ CallLockGhost
    \/ CallBurnGhost
    \/ CallMirrorGhost
    \/ CallMintGhost
    \/ CallAcknowledgeRemote
    \/ CallDestroyGhost
    \/ CallInitializePool
    \/ CallDepositToPool
    \/ CallWithdrawFromPool
    \/ CallExecutePayment
    \/ CallRecordPaymentIntent

SpecProgram == InitProgram /\ [][NextProgram]_vars

(***************************************************************************)
(* Properties of the ghost transfer ledger (checked under Spec).           *)
(***************************************************************************)
\* The order None < Created < Locked < Burned < Minted < Settled.
Rank(st) ==
    CASE st = "None" -> 0
      [] st = "Created" -> 1
      [] st = "Locked" -> 2
      [] st = "Burned" -> 3
      [] st = "Minted" -> 4
      [] st = "Settled" -> 5

GhostOps ==
    {"CreateGhost", "LockGhost", "BurnGhost", "MirrorGhost", "MintGhost",
     "AcknowledgeRemote", "DestroyGhost"}

\* C1: no call leaves the state of a ghost slot lower, in the order
\* None < Created < Locked < Burned < Minted < Settled, than it was before.
C1_StateNeverRegresses ==
    [][\A g \in GhostAccts : Rank(ghost'[g].state) >= Rank(ghost[g].state)]_vars

\* C3: once a slot is Settled no ghost operation is accepted on it and its
\* record stays Settled.
C3_SettledIsTerminal ==
    [][\A g \in GhostAccts :
          ghost[g].state = "Settled" =>
              /\ ghost'[g].state = "Settled"
              /\ ~(last'.op \in GhostOps /\ last'.result = "Ok")]_vars

\* C4: a record that is and stays marked is_remote changes state only by
\* Burned -> Minted and Minted -> Settled.
C4_InboundPath ==
    [][\A g \in GhostAccts :
          /\ ghost[g].is_remote
          /\ ghost'[g].is_remote
          /\ ghost'[g].state # ghost[g].state
          => <<ghost[g].state, ghost'[g].state>> \in
                 {<<"Burned", "Minted">>, <<"Minted", "Settled">>}]_vars

\* C5: a record that is not is_remote changes state only by Created -> Locked,
\* Locked -> Burned and Burned -> Settled, the last only with remote_ack set.
C5_OutboundPath ==
    [][\A g \in GhostAccts :
          /\ ghost[g].state # "None"
          /\ ~ghost[g].is_remote
          /\ ~ghost'[g].is_remote
          /\ ghost'[g].state # ghost[g].state
          => \/ <<ghost[g].state, ghost'[g].state>> \in
                    {<<"Created", "Locked">>, <<"Locked", "Burned">>}
             \/ /\ <<ghost[g].state, ghost'[g].state>> = <<"Burned", "Settled">>
                /\ ghost[g].remote_ack]_vars

\* C6: LockGhost succeeds only on Created, BurnGhost only on Locked and
\* MintGhost only on Burned, each moving the record one state on; a call
\* that passes the validator guard on a record in any other state returns
\* InvalidState, and no such call changes a record in another state.
C6_StateGuards ==
    /\ [](\A c \in ConfigAccts, g \in GhostAccts, v \in Callers, sg \in BOOLEAN,
             id \in GhostIds :
             /\ lock_ghost_result(c, g, v, sg, id) = "Ok" => ghost[g].state = "Created"
             /\ burn_ghost_result(c, g, v, sg, id) = "Ok" => ghost[g].state = "Locked"
             /\ mint_ghost_result(c, g, v, sg, id) = "Ok" => ghost[g].state = "Burned"
             /\ load_with_validator(c, g, v, sg, id) = "Ok" =>
                   /\ ghost[g].state # "Created" =>
                          lock_ghost_result(c, g, v, sg, id) = "InvalidState"
                   /\ ghost[g].state # "Locked" =>
                          burn_ghost_result(c, g, v, sg, id) = "InvalidState"
                   /\ ghost[g].state # "Burned" =>
                          mint_ghost_result(c, g, v, sg, id) = "InvalidState")
    /\ [][/\ \A g \in GhostAccts :
                /\ last'.op = "LockGhost" /\ ghost[g].state # "Created"
                       => ghost'[g] = ghost[g]
                /\ last'.op = "BurnGhost" /\ ghost[g].state # "Locked"
                       => ghost'[g] = ghost[g]
                /\ last'.op = "MintGhost" /\ ghost[g].state # "Burned"
                       => ghost'[g] = ghost[g]
          /\ last'.op = "LockGhost" /\ last'.result = "Ok" =>
                \E g \in GhostAccts :
                    ghost[g].state = "Created" /\ ghost'[g].state = "Locked"
          /\ last'.op = "BurnGhost" /\ last'.result = "Ok" =>
                \E g \in GhostAccts :
                    ghost[g].state = "Locked" /\ ghost'[g].state = "Burned"
          /\ last'.op = "MintGhost" /\ last'.result = "Ok" =>
                \E g \in GhostAccts :
                    ghost[g].state = "Burned" /\ ghost'[g].state = "Minted"]_vars

\* BurnGhost directly after CreateGhost was refused with InvalidState.
C6_Witness ==
    /\ last.op = "BurnGhost"
    /\ last.result = "InvalidState"
    /\ ghost["g1"].state = "Created"

\* The records DestroyGhost may settle according to C7.
Settleable(rec) ==
    rec.state = "Minted" \/ (rec.state = "Burned" /\ rec.remote_ack)

\* C7: DestroyGhost succeeds only on a Minted record or a Burned record with
\* remote_ack, and then sets Settled; in every other state a call that
\* passes the validator guard returns InvalidState and changes nothing.
C7_DestroyGuard ==
    [][\A c \in ConfigAccts, g \in GhostAccts, v \in Callers, sg \in BOOLEAN,
          id \in GhostIds :
          destroy_ghost(c, g, v, sg, id) =>
              /\ last'.result = "Ok" =>
                     Settleable(ghost[g]) /\ ghost'[g].state = "Settled"
              /\ load_with_validator(c, g, v, sg, id) = "Ok" /\ ~Settleable(ghost[g])
                     => last'.result = "InvalidState" /\ ghost' = ghost]_vars

\* C8: MirrorGhost succeeds only on a slot at None or on a record already
\* is_remote, and then leaves state Burned and is_remote set; on a record
\* that is neither, a call that passes the validator guard returns
\* GhostExists, and no MirrorGhost changes such a record.
C8_MirrorNeverClobbersOutbound ==
    /\ [](\A c \in ConfigAccts, g \in GhostAccts, v \in Callers, sg \in BOOLEAN,
             id \in GhostIds :
             /\ mirror_ghost_result(c, g, v, sg, id) = "Ok"
                   => ghost[g].state = "None" \/ ghost[g].is_remote
             /\ /\ load_with_validator(c, g, v, sg, id) = "Ok"
                /\ ghost[g].state # "None"
                /\ ~ghost[g].is_remote
                => mirror_ghost_result(c, g, v, sg, id) = "GhostExists")
    /\ [][/\ \A g \in GhostAccts :
                /\ last'.op = "MirrorGhost"
                /\ ghost[g].state # "None"
                /\ ~ghost[g].is_remote
                => ghost'[g] = ghost[g]
          /\ last'.op = "MirrorGhost" /\ last'.result = "Ok" =>
                \E g \in GhostAccts :
                    /\ ghost[g].state = "None" \/ ghost[g].is_remote
                    /\ ghost'[g].state = "Burned"
                    /\ ghost'[g].is_remote]_vars

\* MirrorGhost was refused with GhostExists on a live outbound record.
C8_Witness ==
    /\ last.op = "MirrorGhost"
    /\ last.result = "GhostExists"
    /\ ghost["g1"].state \in {"Created", "Locked", "Burned"}
    /\ ~ghost["g1"].is_remote

\* C9: CreateGhost succeeds only on a slot at None.
C9_CreateOnlyFromNone ==
    [][\A c \in CfgArgs, g \in GhostAccts, py \in Callers, sg \in BOOLEAN,
          id \in GhostIds, amt \in GhostAmounts, ch \in Chains, ad \in DestAddrs,
          st \in Tokens, dt \in Tokens, now \in Timestamps :
          /\ create_ghost(c, g, py, sg, id, amt, ch, ad, st, dt, now)
          /\ last'.result = "Ok"
          => ghost[g].state = "None"]_vars

ValidatorOps ==
    {"LockGhost", "BurnGhost", "MirrorGhost", "MintGhost", "AcknowledgeRemote",
     "DestroyGhost"}

\* C20: a validator-gated ghost operation that a signing validator calls
\* with an id other than the ghost_id of a record whose state is not None
\* returns GhostMismatch; none of them returns GhostMismatch on a slot at
\* None; and a call that fails leaves the record unchanged.
C20_GhostMismatch ==
    /\ [](\A c \in ConfigAccts, g \in GhostAccts, v \in Callers, sg \in BOOLEAN,
             id \in GhostIds :
             LET results ==
                     {lock_ghost_result(c, g, v, sg, id),
                      burn_ghost_result(c, g, v, sg, id),
                      mirror_ghost_result(c, g, v, sg, id),
                      mint_ghost_result(c, g, v, sg, id),
                      ack_remote_result(c, g, v, sg, id),
                      destroy_ghost_result(c, g, v, sg, id)}
             IN /\ /\ ghost[g].state # "None"
                   /\ ghost[g].ghost_id # id
                   /\ is_validator(config[c], v)
                   /\ sg
                   => results = {"GhostMismatch"}
                /\ ghost[g].state = "None" \/ ghost[g].ghost_id = id
                   => "GhostMismatch" \notin results
                /\ ghost[g].state = "None" /\ is_validator(config[c], v) /\ sg
                   => mirror_ghost_result(c, g, v, sg, id) = "Ok")
    /\ [][last'.op \in ValidatorOps /\ last'.result # "Ok" => ghost' = ghost]_vars

\* A gated call with the wrong id was refused on a live record.
C20_Witness ==
    /\ last.op \in ValidatorOps
    /\ last.result = "GhostMismatch"
    /\ ghost["g1"].state \in {"Created", "Locked", "Burned", "Minted", "Settled"}

(***************************************************************************)
(* Properties of the liquidity pool engine (checked under SpecPool).       *)
(***************************************************************************)
\* C2: an initialized pool has available_liquidity <= total_deposited.
C2_LiquidityWithinDeposits ==
    \A p \in PoolAccts :
        p \in written => pool[p].available_liquidity <= pool[p].total_deposited

\* floor(amount * total_shares / total_deposited), or amount for an empty pool.
IssuedShares(pl, amount) ==
    IF pl.total_shares = 0 THEN amount
    ELSE (amount * pl.total_shares) \div pl.total_deposited

\* C10: a successful deposit issues IssuedShares and grows total_deposited
\* and available_liquidity by exactly amount, total_shares and the
\* position's shares by exactly the issued shares.
C10_DepositAccounting ==
    [][\A p \in PoolAccts, q \in PosAccts, d \in Depositors, sg \in BOOLEAN,
          amt \in Amounts, now \in Timestamps :
          /\ deposit_to_pool(p, q, d, sg, amt, now)
          /\ last'.result = "Ok"
          => LET sh == IssuedShares(pool[p], amt)
                 before == IF q \in written THEN position[q].shares ELSE 0
             IN /\ last'.vals = <<amt, sh>>
                /\ pool'[p].total_deposited = pool[p].total_deposited + amt
                /\ pool'[p].available_liquidity =
                       pool[p].available_liquidity + amt
                /\ pool'[p].total_shares = pool[p].total_shares + sh
                /\ position'[q].shares = before + sh]_vars

\* C11: a successful withdrawal pays floor(shares * total_deposited /
\* total_shares) of the values before the call, lowers total_deposited and
\* available_liquidity by exactly that amount and total_shares and the
\* position's shares by exactly shares.
C11_WithdrawAccounting ==
    [][\A p \in PoolAccts, q \in PosAccts, w \in Depositors, sg \in BOOLEAN,
          sh \in Amounts :
          /\ withdraw_from_pool(p, q, w, sg, sh)
          /\ last'.result = "Ok"
          => LET amt == (sh * pool[p].total_deposited) \div pool[p].total_shares
             IN /\ last'.vals = <<amt, sh>>
                /\ pool'[p].total_deposited = pool[p].total_deposited - amt
                /\ pool'[p].available_liquidity =
                       pool[p].available_liquidity - amt
                /\ pool'[p].total_shares = pool[p].total_shares - sh
                /\ position'[q].shares = position[q].shares - sh]_vars

\* floor(shares * total_deposited / total_shares); 0 when no share is
\* outstanding.
Payout(pl, shares) ==
    IF pl.total_shares = 0 THEN 0
    ELSE (shares * pl.total_deposited) \div pl.total_shares

\* C12: on a written pool and position, a withdrawal by a signer fails with
\* "Not position owner" when the position is not the caller's, with
\* "Insufficient shares" exactly when shares > position.shares, otherwise
\* with "Insufficient pool liquidity" exactly when the payout exceeds
\* available_liquidity, and succeeds in every other case; a failed
\* withdrawal changes neither the pool nor the position.
C12_WithdrawErrors ==
    [][\A p \in PoolAccts, q \in PosAccts, w \in Depositors, sh \in Amounts :
          /\ withdraw_from_pool(p, q, w, TRUE, sh)
          /\ p \in written
          /\ q \in written
          => /\ position[q].owner # w =>
                    last'.result = "InvalidAccountData"
             /\ position[q].owner = w =>
                    /\ last'.log = "Insufficient shares"
                           <=> sh > position[q].shares
                    /\ sh <= position[q].shares =>
                           (last'.log = "Insufficient pool liquidity"
                               <=> Payout(pool[p], sh) > pool[p].available_liquidity)
                    /\ /\ sh <= position[q].shares
                       /\ Payout(pool[p], sh) <= pool[p].available_liquidity
                       => last'.result = "Ok"
             /\ last'.result # "Ok" => pool' = pool /\ position' = position]_vars

\* C13: a successful execute_payment lowers available_liquidity by exactly
\* amount and leaves every other pool field and every position alone; a call
\* that gets past the relayer, owner and recipient checks with amount >
\* available_liquidity fails with "Insufficient pool liquidity", and a failed
\* call changes nothing.
C13_PaymentFrame ==
    /\ [](\A c \in ConfigAccts, p \in PoolAccts, rl \in Callers, rc \in Depositors,
             amt \in Amounts :
             /\ execute_payment_result(c, p, rc, rl, TRUE, rc, amt)[1] = "Ok"
                   => amt <= pool[p].available_liquidity
             /\ /\ is_validator(config[c], rl)
                /\ p \in written
                /\ amt > pool[p].available_liquidity
                => execute_payment_result(c, p, rc, rl, TRUE, rc, amt) =
                       <<"InsufficientFunds", "Insufficient pool liquidity: {} < {}">>)
    /\ [][last'.op = "ExecutePayment" =>
             /\ position' = position
             /\ written' = written
             /\ last'.result # "Ok" => pool' = pool /\ lamports' = lamports
             /\ last'.result = "Ok" =>
                   \E p \in PoolAccts :
                       /\ pool' = [pool EXCEPT ![p].available_liquidity =
                                      pool[p].available_liquidity - last'.vals[1]]
                       /\ pool'[p].available_liquidity >= 0]_vars

\* A payment of a positive amount went out of a pool that LPs had funded.
C13_Witness ==
    /\ last.op = "ExecutePayment"
    /\ last.result = "Ok"
    /\ last.vals[1] > 0
    /\ pool["p1"].total_deposited > pool["p1"].available_liquidity

(***************************************************************************)
(* Properties of the whole program (checked under SpecProgram).            *)
(***************************************************************************)
GatedOps ==
    {"LockGhost", "BurnGhost", "MirrorGhost", "MintGhost", "AcknowledgeRemote",
     "DestroyGhost", "ExecutePayment", "RecordPaymentIntent"}

\* What the instructions persist: every record and every balance.
records == <<config, ghost, pool, position, written, lamports, intent>>

\* C14: each of the eight validator-gated instructions succeeds only for a
\* signing caller that is in the validator list of the registry at the time
\* of the call; for a caller that is not in the list each of them returns
\* UnauthorizedValidator, and a call that ends so changes no record.
C14_ValidatorGate ==
    /\ [](\A c \in ConfigAccts, g \in GhostAccts, p \in PoolAccts,
             i \in IntentAccts, v \in Callers, sg \in BOOLEAN, id \in GhostIds,
             amt \in Stakes :
             LET results ==
                     {lock_ghost_result(c, g, v, sg, id),
                      burn_ghost_result(c, g, v, sg, id),
                      mirror_ghost_result(c, g, v, sg, id),
                      mint_ghost_result(c, g, v, sg, id),
                      ack_remote_result(c, g, v, sg, id),
                      destroy_ghost_result(c, g, v, sg, id),
                      execute_payment_result(c, p, v, v, sg, v, amt)[1],
                      record_payment_intent_result(c, i, v, sg)}
             IN /\ "Ok" \in results => is_validator(config[c], v) /\ sg
                /\ ~is_validator(config[c], v) => results = {"UnauthorizedValidator"})
    /\ [][last'.op \in GatedOps =>
             /\ last'.result = "Ok" =>
                   \E c \in ConfigAccts, v \in Callers : is_validator(config[c], v)
             /\ (\A c \in ConfigAccts, v \in Callers : ~is_validator(config[c], v))
                   => last'.result = "UnauthorizedValidator"
             /\ last'.result = "UnauthorizedValidator" => UNCHANGED records]_vars

\* A validator that had locked a ghost is no longer in the list, and a gated
\* call was refused.
C14_Witness ==
    /\ last.op \in GatedOps
    /\ last.result = "UnauthorizedValidator"
    /\ config["c1"].validators = <<>>
    /\ ghost["g1"].state = "Locked"

(***************************************************************************)
(* Properties of the access-control registry (checked under SpecRegistry). *)
(***************************************************************************)
\* C15: once a registry slot has been initialized, no Initialize on it
\* changes its admin, validator_threshold, max_validators or validators.
C15_InitializeOnce ==
    [][\A c \in ConfigAccts :
          config[c].admin # Zero32 /\ last'.op = "Initialize"
              => config'[c] = config[c]]_vars

\* C16: the validator list of a registry changes only in a successful
\* SetValidator, which only the signing admin gets; a SetValidator on a
\* program-owned registry by anyone else, or without the admin's signature,
\* returns UnauthorizedAdmin and changes nothing.
C16_AdminOnly ==
    /\ [](\A c \in ConfigAccts, k \in RegistryAdmins, sg \in BOOLEAN,
             v \in Candidates, en \in BOOLEAN :
             /\ set_validator_result(c, k, sg, v, en) \in {"Ok", "ValidatorLimit"}
                   => sg /\ k = config[c].admin
             /\ ~sg \/ k # config[c].admin
                   => set_validator_result(c, k, sg, v, en) = "UnauthorizedAdmin")
    /\ [][/\ last'.op = "SetValidator" /\ last'.result = "UnauthorizedAdmin"
                => config' = config
          /\ \A c \in ConfigAccts :
                config'[c].validators # config[c].validators
                    => last'.op = "SetValidator" /\ last'.result = "Ok"]_vars

NoDuplicates(s) == \A i, j \in 1..Len(s) : s[i] = s[j] => i = j

\* C17: every registry has a duplicate-free validator list of at most
\* max_validators entries; for the signing admin, enabling a listed identity
\* succeeds and keeps the list, enabling a new one on a full list returns
\* ValidatorLimit and changes nothing, and disabling succeeds, removes every
\* matching entry and keeps the list of an absent identity.
C17_ValidatorList ==
    /\ [](\A c \in ConfigAccts :
             /\ NoDuplicates(config[c].validators)
             /\ Len(config[c].validators) <= config[c].max_validators
             /\ \A v \in Candidates :
                  LET k == config[c].admin
                      on == set_validator_list(config[c], v, TRUE)
                      off == set_validator_list(config[c], v, FALSE)
                  IN /\ is_validator(config[c], v) =>
                           /\ set_validator_result(c, k, TRUE, v, TRUE) = "Ok"
                           /\ on = config[c].validators
                     /\ /\ ~is_validator(config[c], v)
                        /\ Len(config[c].validators) = config[c].max_validators
                        => set_validator_result(c, k, TRUE, v, TRUE) = "ValidatorLimit"
                     /\ /\ ~is_validator(config[c], v)
                        /\ Len(config[c].validators) < config[c].max_validators
                        => /\ set_validator_result(c, k, TRUE, v, TRUE) = "Ok"
                           /\ on = Append(config[c].validators, v)
                     /\ set_validator_result(c, k, TRUE, v, FALSE) = "Ok"
                     /\ \A n \in 1..Len(off) : off[n] # v
                     /\ ~is_validator(config[c], v) => off = config[c].validators)
    /\ [][last'.op = "SetValidator" /\ last'.result = "ValidatorLimit"
             => config' = config]_vars

\* Enabling a third validator on a full registry of MaxValidators was refused.
C17_Witness ==
    /\ last.op = "SetValidator"
    /\ last.result = "ValidatorLimit"
    /\ config["c1"].max_validators = MaxValidators
    /\ Len(config["c1"].validators) = MaxValidators

C19_NoWraparound ==
    [][/\ \A p \in PoolAccts, q \in PosAccts, d \in Depositors, amt \in Amounts,
             now \in Timestamps :
             /\ deposit_to_pool(p, q, d, TRUE, amt, now)
             /\ last'.result = "Ok"
             => /\ ~deposit_overflows(p, q, d, amt)
                /\ Fits(IssuedShares(pool[p], amt))
       /\ \A p \in PoolAccts, q \in PosAccts, w \in Depositors, sh \in Amounts :
             /\ withdraw_from_pool(p, q, w, TRUE, sh)
             /\ last'.result = "Ok"
             => /\ ~withdraw_overflows(p, q, sh)
                /\ Fits(Payout(pool[p], sh))
       /\ \A c \in ConfigAccts, p \in PoolAccts, rl \in Callers,
             rc \in Depositors, it \in IntentIds, amt \in Amounts :
             /\ execute_payment(c, p, rc, rl, TRUE, it, rc, amt)
             /\ last'.result = "Ok"
             => Fits(pool[p].available_liquidity - amt)]_vars

(***************************************************************************)
(* Further properties of the liquidity pool engine.                        *)
(***************************************************************************)
\* C21: available_liquidity of a pool never exceeds the lamports that
\* deposits have moved into the pool account and that withdrawals and
\* payouts have not moved out again.
C21_LiquidityBacked ==
    \A p \in PoolAccts : pool[p].available_liquidity <= lamports[p]

\* A withdrawal has just paid lamports out of a pool that still holds some.
C21_Witness ==
    /\ last.op = "WithdrawFromPool"
    /\ last.result = "Ok"
    /\ last.vals[1] > 0
    /\ lamports["p1"] > 0

RECURSIVE SharesOf(_, _)
SharesOf(qs, seed) ==
    IF qs = {} THEN 0
    ELSE LET q == CHOOSE x \in qs : TRUE
             own == IF q \in written /\ position[q].pool = seed
                    THEN position[q].shares ELSE 0
         IN own + SharesOf(qs \ {q}, seed)

\* C23: the total_shares of every pool equals the sum of the shares of the
\* LP positions whose pool field is the pool's seed.
C23_SharesMatchPositions ==
    \A p \in PoolAccts :
        p \in written => pool[p].total_shares = SharesOf(PosAccts, pool[p].seed)

\* C24: no deposit and no withdrawal divides by zero: a pool with shares
\* outstanding has total_deposited > 0 (the divisor of deposit's
\* proportional branch), and whenever a withdrawal passes the signer,
\* ownership and share-count checks, a withdrawal of 0 shares included,
\* the pool has total_shares > 0 (the divisor of the payout).
C24_NoDivisionByZero ==
    /\ last.log # "attempt to divide by zero"
    /\ \A p \in PoolAccts :
          p \in written =>
             /\ pool[p].total_shares # 0 => pool[p].total_deposited > 0
             /\ \A q \in PosAccts, w \in Depositors, sh \in Amounts :
                   /\ q \in written
                   /\ position[q].owner = w
                   /\ position[q].shares >= sh
                   => pool[p].total_shares > 0

(***************************************************************************)
(* A deposit followed by the withdrawal of the shares it issued.           *)
(***************************************************************************)
\* The pool record deposit_to_pool stores for a deposit of amount.
Deposited(pl, amount) ==
    [pl EXCEPT !.total_deposited = Wrap(@ + amount),
               !.total_shares = Wrap(@ + deposit_shares(pl, amount)),
               !.available_liquidity = Wrap(@ + amount)]

\* The pool record withdraw_from_pool stores for a withdrawal of shares.
Withdrawn(pl, shares) ==
    [pl EXCEPT !.total_deposited = Wrap(@ - withdraw_amount(pl, shares)),
               !.total_shares = Wrap(@ - shares),
               !.available_liquidity = Wrap(@ - withdraw_amount(pl, shares))]

\* C25: a deposit of amount immediately followed by the withdrawal of
\* exactly the shares it issued pays out at most amount, and leaves the
\* withdrawable value floor(s * total_deposited / total_shares) of every
\* other holding of s shares no smaller than it was before the deposit.
C25_RoundTripNeverGains ==
    /\ [](\A p \in PoolAccts, a \in Amounts :
            LET sh == deposit_shares(pool[p], a)
                mid == Deposited(pool[p], a)
            IN  /\ \E q \in PoolPositions, d \in Depositors :
                      deposit_to_pool_result(p, q, d, TRUE, a)[1] = "Ok"
                /\ mid.total_shares # 0
                /\ withdraw_amount(mid, sh) <= mid.available_liquidity
                => /\ withdraw_amount(mid, sh) <= a
                   /\ \A s \in 0..(Modulus - 1) :
                         Payout(Withdrawn(mid, sh), s) >= Payout(pool[p], s))
    /\ [][/\ last'.op = "DepositToPool" /\ last'.result = "Ok" =>
                \A p \in PoolAccts :
                    /\ pool'[p] = Deposited(pool[p], last'.vals[1])
                    /\ last'.vals[2] = deposit_shares(pool[p], last'.vals[1])
          /\ last'.op = "WithdrawFromPool" /\ last'.result = "Ok" =>
                \A p \in PoolAccts :
                    /\ pool'[p] = Withdrawn(pool[p], last'.vals[2])
                    /\ last'.vals[1] = withdraw_amount(pool[p], last'.vals[2])
          /\ /\ last.op = "DepositToPool" /\ last.result = "Ok"
             /\ last'.op = "WithdrawFromPool" /\ last'.result = "Ok"
             /\ last'.vals[2] = last.vals[2]
             => last'.vals[1] <= last.vals[1]]_vars

\* A withdrawal of one share paid one lamport out of a pool in which
\* another share, backed by one lamport, is still outstanding.
C25_Witness ==
    /\ last.op = "WithdrawFromPool"
    /\ last.result = "Ok"
    /\ last.vals = <<1, 1>>
    /\ pool["p1"].total_shares = 1
    /\ pool["p1"].total_deposited = 1

(***************************************************************************)
(* The liveness specification: the ghost instructions on one slot, with    *)
(* the registry already initialized by alice and bob enabled in it for     *)
(* good (no Initialize, no SetValidator).  Validators keep submitting the   *)
(* steps of the two paths: each of LockGhost, BurnGhost, MintGhost,        *)
(* AcknowledgeRemote and DestroyGhost that can succeed again and again      *)
(* does succeed at some point (strong fairness).  CreateGhost and          *)
(* MirrorGhost are calls of users and of the remote side; nothing obliges  *)
(* them to happen.                                                         *)
(***************************************************************************)
InitLive ==
    /\ config = [c \in ConfigAccts |->
                    [admin |-> "alice", validator_threshold |-> 1,
                     max_validators |-> 1, validators |-> <<"bob">>]]
    /\ ghost = [g \in GhostAccts |-> DefaultGhost]
    /\ pool = [p \in PoolAccts |-> ZeroPool]
    /\ position = [q \in PosAccts |-> ZeroPosition]
    /\ written = {}
    /\ lamports = [p \in PoolAccts |-> 0]
    /\ intent = [i \in IntentAccts |-> ZeroIntent]
    /\ overflow_checks = FALSE
    /\ last = [op |-> "none", result |-> "Ok", log |-> "", vals |-> <<>>]

NextLive ==
    \/ CreateGhost
    \/ LockGhost
    \/ BurnGhost
    \/ MirrorGhost
    \/ MintGhost
    \/ AcknowledgeRemote
    \/ DestroyGhost

\* The step A when the instruction returns Ok.
Succeeds(A) == A /\ last'.result = "Ok"

\* The calls a registered validator signs to move a ghost along its path.
ValidatorLock ==
    \E c \in ConfigAccts, g \in GhostAccts, v \in Validators, id \in GhostIds,
       now \in Timestamps :
        lock_ghost(c, g, v, TRUE, id, now)

ValidatorBurn ==
    \E c \in ConfigAccts, g \in GhostAccts, v \in Validators, id \in GhostIds,
       pr \in Proofs, now \in Timestamps :
        burn_ghost(c, g, v, TRUE, id, pr, now)

ValidatorMint ==
    \E c \in ConfigAccts, g \in GhostAccts, v \in Validators, id \in GhostIds,
       pr \in Proofs, rc \in Callers, now \in Timestamps :
        mint_ghost(c, g, v, TRUE, id, pr, rc, now)

ValidatorAcknowledge ==
    \E c \in ConfigAccts, g \in GhostAccts, v \in Validators, id \in GhostIds :
        ack_remote(c, g, v, TRUE, id)

ValidatorDestroy ==
    \E c \in ConfigAccts, g \in GhostAccts, v \in Validators, id \in GhostIds :
        destroy_ghost(c, g, v, TRUE, id)

FairLive ==
    /\ SF_vars(Succeeds(ValidatorLock))
    /\ SF_vars(Succeeds(ValidatorBurn))
    /\ SF_vars(Succeeds(ValidatorMint))
    /\ SF_vars(Succeeds(ValidatorAcknowledge))
    /\ SF_vars(Succeeds(ValidatorDestroy))

SpecLive == InitLive /\ [][NextLive]_vars /\ FairLive

\* The states of a ghost that is under way.
Underway == {"Created", "Locked", "Burned", "Minted"}

\* C26: with a validator registered for good and the validator-gated steps
\* taken fairly, every ghost record that is Created, Locked, Burned or
\* Minted is eventually Settled.
C26_EveryGhostSettles ==
    \A g \in GhostAccts, id \in GhostIds :
        (ghost[g].ghost_id = id /\ ghost[g].state \in Underway)
            ~> (ghost[g].ghost_id = id /\ ghost[g].state = "Settled")

=============================================================================
